---- MODULE Spec2Model ----
(***************************************************************************)
(* Model of the Mahagenco staffing dashboard (src/app.py): the two CSV      *)
(* data files, the load_data cache, the per-session Streamlit script runs   *)
(* with the admin actions of tab 3, and the pure metric functions           *)
(* calculate_metrics / get_global_metrics.                                  *)
(***************************************************************************)
EXTENDS Integers, Sequences, FiniteSets, TLC

VARIABLES
    files,            \* the two CSV files on local disk, by filename
    cache,            \* st.cache_data entries of load_data, by filename
    remote,           \* the files in the GitHub repository, by filename
    admin_logged_in,  \* st.session_state.admin_logged_in, per session
    pc,               \* per session: "idle", "rerun", "save" or "push"
    view_mode,        \* per session: the view radio (line 356) of its admin action
    typed,            \* per session: the password that let Login through (line 538)
    ops_df,           \* per session: load_data(OPS_FILE) of its admin action's run
    dept_df,          \* per session: load_data(DEPT_FILE) of its admin action's run
    working_df,       \* per session: the table an admin action has changed
    target_file,      \* per session: the file the admin action writes
    act,              \* per session: the admin action of the current run
    wrote,            \* per session: the file as its save_local left it
    saves,            \* per session: save_local calls of the current action
    pushes,           \* per session: update_github calls of the current action
    pushed,           \* per session: outcome of the update_github call
    outcome,          \* per session: how the last script run ended
    lastWrite,        \* per file: the table of the last save_local
    edits,            \* admin actions carried out so far
    mOps,      \* metrics development: the ops table handed to the metric functions
    mDept,     \* metrics development: the departmental table
    mPc,       \* metrics development: which metric computation was applied last
    rtName,    \* round-trip development: the filename handed to load_data / save_local
    rtOrig,    \* round-trip development: the CSV file as first found
    rtFile,    \* round-trip development: the CSV file on disk
    rtDf,      \* round-trip development: the DataFrame load_data returned
    rtPc       \* round-trip development: "file", "loaded" or "saved"

storevars == <<files, cache, remote, lastWrite, edits>>
sessvars == <<admin_logged_in, pc, view_mode, typed, ops_df, dept_df, working_df,
              target_file, act, wrote, saves, pushes, pushed, outcome>>
appvars == <<storevars, sessvars>>
mvars == <<mOps, mDept, mPc>>
rtvars == <<rtName, rtOrig, rtFile, rtDf, rtPc>>
vars == <<appvars, mvars, rtvars>>

(***************************************************************************)
(* Program constants (src/app.py:21-26) and the strings the code compares.  *)
(***************************************************************************)
OPS_FILE  == "stitched_staffing_data.csv"
DEPT_FILE == "departmental_staffing_data.csv"
VIEW_OPS  == "PCR Shift Operation (Main Plant)"
VIEW_DEPT == "Departmental Staff"

SIC_DESK == "Shift In-Charge"       \* the Desk value get_global_metrics filters out

(***************************************************************************)
(* Bounds of the metrics development.                                       *)
(***************************************************************************)
MaxMetricRows == 2                  \* rows of the ops and departmental table together

MUnits    == {"Unit 6", "Unit 7"}
MDesks    == {"Turbine Control Desk", SIC_DESK}
MDepts    == {"Shift In-Charge (U8)", "CHP"}
MNames    == {"A", " A", "B", "VACANT POSITION"}
MStatuses == {"Active", "Transferred", "VACANCY"}

(***************************************************************************)
(* String functions of pandas / Python on the name and status universe.     *)
(***************************************************************************)
\* str.contains("VACANT", case=False) (line 124) / "VACANT" in str(raw_name)
ContainsVACANT(name) == name \in {"VACANT", "VACANT POSITION"}

\* str.strip() (line 127)
Strip(name) == IF name = " A" THEN "A"
               ELSE IF name = "A " THEN "A"
               ELSE IF name = " B" THEN "B"
               ELSE name

\* 'Transferred' in str(x) (line 131)
ContainsTransferred(status) == status = "Transferred"

\* the lambda of line 131
StatusRank(status) == IF ContainsTransferred(status) THEN 2 ELSE 1

(***************************************************************************)
(* Sequence helpers.                                                        *)
(***************************************************************************)
RECURSIVE SeqsUpTo(_, _)
SeqsUpTo(S, n) == IF n = 0 THEN {<<>>}
                  ELSE LET shorter == SeqsUpTo(S, n - 1)
                       IN shorter \cup {Append(q, x) : q \in {r \in shorter : Len(r) = n - 1}, x \in S}

\* sum of the entries of the function f over the keys in S
RECURSIVE SumOver(_, _)
SumOver(S, f) == IF S = {} THEN 0
                 ELSE LET x == CHOOSE y \in S : TRUE
                      IN f[x] + SumOver(S \ {x}, f)

(***************************************************************************)
(* calculate_metrics (lines 120-145).                                       *)
(***************************************************************************)
\* line 124: rows whose name does not contain VACANT; line 127: names stripped
StaffOnly(df) ==
    LET keep(r) == ~ContainsVACANT(r.Staff_Name)
        kept == SelectSeq(df, keep)
    IN [i \in 1..Len(kept) |->
          [Staff_Name |-> Strip(kept[i].Staff_Name), Status |-> kept[i].Status]]

\* lines 131-137: stable sort by (Staff_Name ascending, Status_Rank descending)
\* and drop_duplicates(keep='first'): per name, the first row in table order
\* among the rows of the highest rank. The result maps each name to the Status
\* of the row kept for it.
UniqueStaffMutNoRank(df) ==
    LET so == StaffOnly(df)
        names == {so[i].Staff_Name : i \in 1..Len(so)}
        first(n) == CHOOSE i \in 1..Len(so) :
                       /\ so[i].Staff_Name = n
                       /\ \A j \in 1..Len(so) : so[j].Staff_Name = n => i <= j
    IN [n \in names |-> so[first(n)].Status]

UniqueStaff(df) ==
    LET so == StaffOnly(df)
        names == {so[i].Staff_Name : i \in 1..Len(so)}
        best(n) == CHOOSE i \in 1..Len(so) :
                      /\ so[i].Staff_Name = n
                      /\ \A j \in 1..Len(so) : so[j].Staff_Name = n =>
                            \/ StatusRank(so[j].Status) < StatusRank(so[i].Status)
                            \/ (StatusRank(so[j].Status) = StatusRank(so[i].Status) /\ i <= j)
    IN [n \in names |-> so[best(n)].Status]

\* line 139
TransferredCount(df) ==
    IF Len(df) = 0 THEN 0
    ELSE LET u == UniqueStaff(df)
         IN Cardinality({n \in DOMAIN u : u[n] = "Transferred"})

\* line 140 (and line 121 for the empty table)
VacantCountMutDedup(df) ==
    Cardinality({df[i].Staff_Name : i \in {j \in 1..Len(df) : df[j].Status = "VACANCY"}})

VacantCount(df) ==
    IF Len(df) = 0 THEN 0
    ELSE Cardinality({i \in 1..Len(df) : df[i].Status = "VACANCY"})

\* lines 142-143: value_counts of the kept statuses, the VACANCY entry
\* overwritten by the row count of vacancies; s.get(status, 0)
StatusCount(df, status) ==
    IF Len(df) = 0 THEN 0
    ELSE IF status = "VACANCY" /\ VacantCount(df) > 0 THEN VacantCount(df)
    ELSE LET u == UniqueStaff(df)
         IN Cardinality({n \in DOMAIN u : u[n] = status})

\* the triple returned at line 145
calculate_metrics(df) ==
    [vacant |-> VacantCount(df),
     transferred |-> TransferredCount(df),
     status_counts |-> [s \in MStatuses |-> StatusCount(df, s)]]

\* the people counted: the entries of status_counts other than VACANCY
Headcount(m) == SumOver(MStatuses \ {"VACANCY"}, m.status_counts)

(***************************************************************************)
(* get_global_metrics (lines 147-169).                                      *)
(***************************************************************************)
\* str.contains('Shift In-Charge') on the Department column (line 161)
ContainsSIC(dept) == dept \in {"Shift In-Charge (U8)", "Shift In-Charge (U6&7)"}

\* df[['Staff_Name', 'Status']]
NameStatus(df) ==
    [i \in 1..Len(df) |-> [Staff_Name |-> df[i].Staff_Name, Status |-> df[i].Status]]

\* line 152: ops[ops['Desk'] != 'Shift In-Charge']
NotSicDesk(r) == r.Desk # SIC_DESK
clean_opsMutKeepSic(ops) == NameStatus(ops)
clean_ops(ops) == NameStatus(SelectSeq(ops, NotSicDesk))

\* lines 148-168: the frames appended to dfs, concatenated in order
Combined(ops, dept, scope) ==
    LET opsPart == IF Len(ops) # 0 /\ scope \in {"Global", "Ops"}
                   THEN clean_ops(ops) ELSE <<>>
        isSic(r) == ContainsSIC(r.Department)
        deptPart == IF Len(dept) = 0 THEN <<>>
                    ELSE IF scope = "Global" THEN NameStatus(dept)
                    ELSE IF scope = "Ops" THEN NameStatus(SelectSeq(dept, isSic))
                    ELSE IF scope = "Dept" THEN NameStatus(dept)
                    ELSE <<>>
    IN opsPart \o deptPart

\* line 166 returns the zero triple when nothing was appended; calculate_metrics
\* returns the same triple for an empty frame (line 121)
get_global_metrics(ops, dept, scope) ==
    calculate_metrics(Combined(ops, dept, scope))

(***************************************************************************)
(* The Summary report's aggregation (lines 263-284): groupby('Unit') of the *)
(* ops rows outside the Shift In-Charge desk, groupby('Department') of the  *)
(* departmental rows, calculate_metrics on every group.                     *)
(***************************************************************************)
UnitsOf(df) == {df[i].Unit : i \in 1..Len(df)}
DeptsOf(df) == {df[i].Department : i \in 1..Len(df)}

GroupByUnit(df) ==
    [u \in UnitsOf(df) |-> LET inUnit(r) == r.Unit = u IN SelectSeq(df, inUnit)]
GroupByDepartment(df) ==
    [d \in DeptsOf(df) |-> LET inDept(r) == r.Department = d IN SelectSeq(df, inDept)]

\* sum over the groups of one of the numbers calculate_metrics returns
SumTransferred(groups) ==
    SumOver(DOMAIN groups, [k \in DOMAIN groups |-> calculate_metrics(groups[k]).transferred])
SumVacant(groups) ==
    SumOver(DOMAIN groups, [k \in DOMAIN groups |-> calculate_metrics(groups[k]).vacant])

(***************************************************************************)
(* CSV files and DataFrames: pd.read_csv and load_data (lines 70-79),       *)
(* df.to_csv(index=False) of save_local (line 82).                          *)
(*                                                                         *)
(* A CSV file is [exists, cols, rows]: whether it is there and readable,     *)
(* the set of header names and the sequence of records, each a function     *)
(* from column name to the cell's text.  A DataFrame is [cols, rows]; a     *)
(* cell holds the value as to_csv prints it, or NaN.                        *)
(***************************************************************************)
\* texts read_csv takes for a missing value (among its default na_values)
NaMarkers == {"", "N/A"}
\* texts read_csv parses as integers, and as floats
IntTexts == {"7"}
FloatTexts == {"7.0"}

NaN == "<NaN>"
MissingFile == [exists |-> FALSE, cols |-> {}, rows |-> <<>>]
EmptyDataFrame == [cols |-> {}, rows |-> <<>>]          \* pd.DataFrame()

\* df.empty: no columns or no rows
IsEmpty(df) == df.cols = {} \/ Len(df.rows) = 0

\* read_csv's type inference for one column of cell texts
ColumnDtype(cells) ==
    LET present == {c \in cells : c \notin NaMarkers}
    IN IF present = {} THEN "float64"
       ELSE IF present \subseteq IntTexts
            THEN (IF present = cells THEN "int64" ELSE "float64")
       ELSE IF present \subseteq (IntTexts \cup FloatTexts) THEN "float64"
       ELSE "object"

\* the value read_csv stores for one cell of a column of the given dtype
ParseCell(dtype, c) ==
    IF c \in NaMarkers THEN NaN
    ELSE IF dtype = "float64" /\ c \in IntTexts THEN c \o ".0"
    ELSE c

\* pd.read_csv(filename) (line 73) of a file that can be read
read_csv(file) ==
    LET cellsOf(col) == {file.rows[i][col] : i \in 1..Len(file.rows)}
    IN [cols |-> file.cols,
        rows |-> [i \in 1..Len(file.rows) |->
                    [col \in file.cols |->
                        ParseCell(ColumnDtype(cellsOf(col)), file.rows[i][col])]]]

\* df[col] = value (lines 75, 76): a new column holding value in every row
WithColumn(df, col, value) ==
    [cols |-> df.cols \cup {col},
     rows |-> [i \in 1..Len(df.rows) |->
                 [c \in df.cols \cup {col} |-> IF c = col THEN value ELSE df.rows[i][c]]]]

\* df.fillna("") (line 77)
fillna(df) ==
    [cols |-> df.cols,
     rows |-> [i \in 1..Len(df.rows) |->
                 [c \in df.cols |-> IF df.rows[i][c] = NaN THEN "" ELSE df.rows[i][c]]]]

\* the body of load_data (lines 72-79); read_csv raises on a missing or
\* unreadable file and the bare except returns pd.DataFrame()
load_dataMutNoDefaults(filename, file) ==
    IF ~file.exists THEN EmptyDataFrame ELSE fillna(read_csv(file))

load_data(filename, file) ==
    IF ~file.exists THEN EmptyDataFrame
    ELSE LET df == read_csv(file)
         IN IF filename = OPS_FILE /\ "Desk" \notin df.cols THEN EmptyDataFrame
            ELSE LET df1 == IF "Status" \notin df.cols
                            THEN WithColumn(df, "Status", "Active") ELSE df
                     df2 == IF "Action_Required" \notin df1.cols
                            THEN WithColumn(df1, "Action_Required", "") ELSE df1
                 IN fillna(df2)

\* how to_csv writes one value: NaN as the empty text
FormatCell(v) == IF v = NaN THEN "" ELSE v

\* df.to_csv(filename, index=False) (line 82)
to_csvMutIndex(df) ==
    [exists |-> TRUE,
     cols |-> df.cols \cup {"Unnamed: 0"},
     rows |-> [i \in 1..Len(df.rows) |->
                 [c \in df.cols \cup {"Unnamed: 0"} |->
                     IF c = "Unnamed: 0" THEN "7" ELSE FormatCell(df.rows[i][c])]]]

to_csv(df) ==
    [exists |-> TRUE,
     cols |-> df.cols,
     rows |-> [i \in 1..Len(df.rows) |-> [c \in df.cols |-> FormatCell(df.rows[i][c])]]]

\* pd.concat([df, pd.DataFrame([new_row])], ignore_index=True) (lines 582,
\* 602): the union of the columns, NaN where a frame has no such column
concat_row(df, new_row) ==
    LET cols == df.cols \cup DOMAIN new_row
        widen(r) == [c \in cols |-> IF c \in DOMAIN r THEN r[c] ELSE NaN]
    IN [cols |-> cols,
        rows |-> [i \in 1..Len(df.rows) |-> widen(df.rows[i])] \o <<widen(new_row)>>]

\* df.at[idx, col] = value (lines 564, 565, 598, 599)
set_at(df, idx, col, value) ==
    [df EXCEPT !.rows[idx] = [@ EXCEPT ![col] = value]]

(***************************************************************************)
(* The developments share the module's variables; each leaves the others'   *)
(* variables at rest.                                                       *)
(***************************************************************************)
MIdle == mOps = <<>> /\ mDept = <<>> /\ mPc = "off"
RtIdle == /\ rtName = "" /\ rtOrig = MissingFile /\ rtFile = MissingFile
          /\ rtDf = EmptyDataFrame /\ rtPc = "off"

(***************************************************************************)
(* The dashboard: sessions running the script of src/app.py top to bottom.  *)
(* A run reads both tables through load_data (lines 345-346), renders the   *)
(* tabs, and in tab 3 handles at most one button; an admin action changes   *)
(* working_df, calls save_local, calls update_github and reruns.  A run is  *)
(* one step up to its save_local, which is a step, as is update_github:     *)
(* between them the runs of other sessions interleave.                      *)
(***************************************************************************)
Sessions == {"s1", "s2"}
FileNames == {OPS_FILE, DEPT_FILE}
Views == {VIEW_OPS, VIEW_DEPT}

MaxEdits == 2                       \* admin actions carried out in one behaviour

PASSWORD == "admin123"              \* the literal of line 538
Passwords == {PASSWORD, "letmein"}  \* texts typed into the Password field

NewStatuses == {"Active", "Transferred", "VACANCY"}     \* line 561
VACANT_NAME == "VACANT"                                  \* line 565
RosterUnits == {"Unit 6", "Unit 7"}     \* drawn from the selectbox of line 590
NewNames == {"A", ""}       \* texts typed into the name fields: a namesake, nothing
NewDesignations == {"JE"}               \* drawn from the selectbox of line 577
NewSapIds == {""}                       \* SAP ID (Optional), line 578

OpsCols  == {"Unit", "Desk", "Staff_Name", "Status", "Action_Required"}
DeptCols == {"Department", "Staff_Name", "Designation", "SAP_ID", "Status", "Action_Required"}

OpsRow(unit, desk, name, status) ==
    [Unit |-> unit, Desk |-> desk, Staff_Name |-> name, Status |-> status,
     Action_Required |-> ""]
DeptRow(dept, name, desg, sap, status) ==
    [Department |-> dept, Staff_Name |-> name, Designation |-> desg, SAP_ID |-> sap,
     Status |-> status, Action_Required |-> ""]

\* the files a behaviour may start from
OpsSeedRows ==
    <<OpsRow("Unit 6", "Turbine Control Desk", "A", "Active"),
      OpsRow("Unit 6", "Turbine Control Desk", "VACANT POSITION", "VACANCY")>>
DeptSeedRows == <<DeptRow("CHP", "A", "JE", "7", "Active")>>

InitialOpsFiles ==
    {MissingFile,
     [exists |-> TRUE, cols |-> OpsCols \ {"Desk"}, rows |-> <<>>],
     [exists |-> TRUE, cols |-> OpsCols, rows |-> <<>>],
     [exists |-> TRUE, cols |-> OpsCols, rows |-> OpsSeedRows]}
InitialDeptFiles ==
    {MissingFile,
     [exists |-> TRUE, cols |-> DeptCols, rows |-> DeptSeedRows]}

NoEntry == [hit |-> FALSE, df |-> EmptyDataFrame]
NoAction == [kind |-> "none", group |-> <<>>, idx |-> 0, status |-> "", name |-> ""]

\* the state of the sessions and stores after construction, but for the files
AppStart ==
    /\ cache = [f \in FileNames |-> NoEntry]
    /\ remote = [f \in FileNames |-> MissingFile]
    /\ lastWrite = [f \in FileNames |-> MissingFile]
    /\ edits = 0
    /\ admin_logged_in = [s \in Sessions |-> FALSE]                     \* line 52
    /\ pc = [s \in Sessions |-> "idle"]
    /\ view_mode = [s \in Sessions |-> VIEW_OPS]
    /\ typed = [s \in Sessions |-> ""]
    /\ ops_df = [s \in Sessions |-> EmptyDataFrame]
    /\ dept_df = [s \in Sessions |-> EmptyDataFrame]
    /\ working_df = [s \in Sessions |-> EmptyDataFrame]
    /\ target_file = [s \in Sessions |-> OPS_FILE]
    /\ act = [s \in Sessions |-> NoAction]
    /\ wrote = [s \in Sessions |-> MissingFile]
    /\ saves = [s \in Sessions |-> 0]
    /\ pushes = [s \in Sessions |-> 0]
    /\ pushed = [s \in Sessions |-> "none"]
    /\ outcome = [s \in Sessions |-> "none"]

\* the dashboard at rest, for the developments of the pure functions
AppIdle == AppStart /\ files = [f \in FileNames |-> MissingFile]

Init ==
    /\ files \in {[f \in FileNames |-> IF f = OPS_FILE THEN o ELSE d] :
                     o \in InitialOpsFiles, d \in InitialDeptFiles}
    /\ AppStart
    /\ MIdle
    /\ RtIdle

(***************************************************************************)
(* Pieces of the script.                                                    *)
(***************************************************************************)
\* st.cache_data.clear() (lines 83, 338): no entry is left
cache_clearMutKeep == cache
cache_clear == [f \in FileNames |-> NoEntry]

\* @st.cache_data load_data(filename) (lines 70-79): the cached frame when
\* there is one, else the frame read from the file
Cached(f) == IF cache[f].hit THEN cache[f].df ELSE load_data(f, files[f])

\* lines 546-547
WorkingOf(view, ops, dept) == IF view = VIEW_OPS THEN ops ELSE dept
TargetOfMutOps(view) == OPS_FILE
TargetOf(view) == IF view = VIEW_OPS THEN OPS_FILE ELSE DEPT_FILE

\* df[col] raises KeyError when the frame has no such column
KeyError(df, colsUsed) == ~(colsUsed \subseteq df.cols)

\* tab 1 (lines 363-496): the columns it indexes on the path it takes
Tab1Raises(view, ops, dept) ==
    IF view = VIEW_OPS
    THEN /\ ~IsEmpty(ops)                                          \* line 365
         /\ \/ KeyError(ops, {"Desk", "Unit", "Staff_Name", "Status"})
            \/ KeyError(dept, {"Department"})                      \* line 390
    ELSE /\ ~IsEmpty(dept)                                         \* line 433
         /\ KeyError(dept, {"Department", "Designation", "Staff_Name", "Status"})

\* tab 2 (lines 498-533): both search tabs are built in every run
Tab2Raises(ops, dept) ==
    \/ KeyError(ops, {"Unit", "Desk"})                             \* lines 505-506
    \/ ~IsEmpty(ops) /\ KeyError(ops, {"Unit", "Desk", "Staff_Name", "Status"})
    \/ KeyError(dept, {"Department"})                              \* line 522
    \/ ~IsEmpty(dept) /\ KeyError(dept, {"Department", "Staff_Name", "Designation", "Status"})

\* the run of a session in this view never reaches tab 3
TabsRaise(view, ops, dept) ==
    \/ Tab1Raises(view, ops, dept)
    \/ Tab2Raises(ops, dept)

\* line 538: the comparison that lets Login through
PasswordOkMutAny(pw) == TRUE
PasswordOk(pw) == pw = PASSWORD

\* the order of the calls after an admin action has changed working_df
\* (lines 566-569, 583-586, 603-606): save_local, update_github, st.rerun
NextCallMutPushFirst(step) ==
    CASE step = "mutate" -> "push"
      [] step = "push"   -> "save"
      [] step = "save"   -> "rerun"
NextCall(step) ==
    CASE step = "mutate" -> "save"
      [] step = "save"   -> "push"
      [] step = "push"   -> "rerun"

\* the row indices of df that satisfy a test, and the first of them (.index[0])
Indices(df) == 1..Len(df.rows)
First(S) == CHOOSE i \in S : \A j \in S : i <= j

\* lines 555 and 558: p_list, as the set of its row indices
OpsPList(df, u, d) == {i \in Indices(df) : df.rows[i]["Unit"] = u /\ df.rows[i]["Desk"] = d}
DeptPList(df, dept) == {i \in Indices(df) : df.rows[i]["Department"] = dept}

\* line 563: p_list[p_list['Staff_Name']==p].index[0]
PersonIndex(df, p_list, p) ==
    LET matches == {i \in p_list : df.rows[i]["Staff_Name"] = p}
    IN IF matches = {} THEN 0 ELSE First(matches)        \* 0: .index[0] raises IndexError

\* line 560: the options of the Person selectbox
PersonOptionsMutStale(df, p_list) == {df.rows[i]["Staff_Name"] : i \in p_list} \cup {"Z"}
PersonOptions(df, p_list) == {df.rows[i]["Staff_Name"] : i \in p_list}

\* lines 564-565
ChangeStatusMutKeepName(df, idx, s) == set_at(df, idx, "Status", s)
ChangeStatus(df, idx, s) ==
    LET df1 == set_at(df, idx, "Status", s)
    IN IF s = "VACANCY" THEN set_at(df1, idx, "Staff_Name", VACANT_NAME) ELSE df1

\* lines 581-582
AddDepartmentRowMutReplace(df, new_dept, new_name, new_desg, new_sap) ==
    [cols |-> DeptCols, rows |-> <<DeptRow(new_dept, new_name, new_desg, new_sap, "Active")>>]
AddDepartmentRow(df, new_dept, new_name, new_desg, new_sap) ==
    concat_row(df, DeptRow(new_dept, new_name, new_desg, new_sap, "Active"))

\* lines 580, 594: if new_name
NameGivenMutAlways(new_name) == TRUE
NameGiven(new_name) == new_name # ""

\* line 595: vac_check, as the set of its row indices
VacCheck(df, new_unit, new_desk) ==
    {i \in Indices(df) : /\ df.rows[i]["Unit"] = new_unit
                         /\ df.rows[i]["Desk"] = new_desk
                         /\ df.rows[i]["Status"] = "VACANCY"}

\* lines 595-602
AddRosterRowMutAppend(df, new_unit, new_desk, new_name) ==
    concat_row(df, OpsRow(new_unit, new_desk, new_name, "Active"))
AddRosterRow(df, new_unit, new_desk, new_name) ==
    LET vac_check == VacCheck(df, new_unit, new_desk)
    IN IF vac_check # {}
       THEN set_at(set_at(df, First(vac_check), "Staff_Name", new_name),
                   First(vac_check), "Status", "Active")
       ELSE concat_row(df, OpsRow(new_unit, new_desk, new_name, "Active"))

\* df.to_csv(filename, index=False) in save_local: the file is replaced,
\* whatever it holds
save_local_writeMutKeepLonger(df, onDisk) ==
    IF onDisk.exists /\ Len(onDisk.rows) > Len(df.rows) THEN onDisk ELSE to_csv(df)
save_local_write(df, onDisk) == to_csv(df)

(***************************************************************************)
(* Actions.                                                                 *)
(***************************************************************************)
\* lines 345-346: both tables are loaded, the cache holds them afterwards
LoadsData(ops, dept) ==
    cache' = [f \in FileNames |-> [hit |-> TRUE, df |-> IF f = OPS_FILE THEN ops ELSE dept]]

\* what a run leaves behind when it ends without a rerun: the page, on which
\* the user sets the widgets for the next run
RunEnds(s, how) ==
    /\ pc' = [pc EXCEPT ![s] = "idle"]
    /\ view_mode' = [view_mode EXCEPT ![s] = VIEW_OPS]
    /\ outcome' = [outcome EXCEPT ![s] = how]
    /\ typed' = [typed EXCEPT ![s] = ""]
    /\ ops_df' = [ops_df EXCEPT ![s] = EmptyDataFrame]
    /\ dept_df' = [dept_df EXCEPT ![s] = EmptyDataFrame]
    /\ working_df' = [working_df EXCEPT ![s] = EmptyDataFrame]
    /\ target_file' = [target_file EXCEPT ![s] = OPS_FILE]
    /\ act' = [act EXCEPT ![s] = NoAction]
    /\ wrote' = [wrote EXCEPT ![s] = MissingFile]
    /\ saves' = [saves EXCEPT ![s] = 0]
    /\ pushes' = [pushes EXCEPT ![s] = 0]
    /\ pushed' = [pushed EXCEPT ![s] = "none"]
    /\ UNCHANGED admin_logged_in

\* what a run leaves behind when it ends in st.rerun() without an admin
\* action; the user may set the view radio (line 356) before the rerun reads it
RunReruns(s) ==
    /\ pc' = [pc EXCEPT ![s] = "rerun"]
    /\ UNCHANGED <<view_mode, ops_df, dept_df, working_df, target_file, act, wrote, saves,
                   pushes, pushed, outcome>>

\* the Refresh Data button (lines 337-339): clear the cache, rerun
Refresh(s) ==
    /\ pc[s] = "idle"
    /\ cache' = cache_clear
    /\ pc' = [pc EXCEPT ![s] = "rerun"]
    /\ UNCHANGED <<admin_logged_in, view_mode, typed, ops_df, dept_df, working_df,
                   target_file, act, wrote, saves, pushes, pushed, outcome>>
    /\ UNCHANGED <<files, remote, lastWrite, edits, mvars, rtvars>>

\* ttl=1 (line 70): entries older than a second are dropped
CacheExpire ==
    /\ \E f \in FileNames : cache[f].hit
    /\ cache' = [f \in FileNames |-> NoEntry]
    /\ UNCHANGED <<files, remote, lastWrite, edits, sessvars, mvars, rtvars>>

\* a run in which tab 1 or tab 2 raises: it stops with the exception on the
\* page and never reaches tab 3
Crash(s) ==
    /\ pc[s] \in {"idle", "rerun"}
    /\ LET ops == Cached(OPS_FILE)
           dept == Cached(DEPT_FILE)
       IN /\ \E view \in Views : TabsRaise(view, ops, dept)
          /\ RunEnds(s, "exception")
          /\ LoadsData(ops, dept)
    /\ UNCHANGED <<files, remote, lastWrite, edits, mvars, rtvars>>

\* a run that reaches the end of the script with no button handled; a
\* logged-in admin over an empty table is shown line 548's error
Render(s) ==
    /\ pc[s] \in {"idle", "rerun"}
    /\ LET ops == Cached(OPS_FILE)
           dept == Cached(DEPT_FILE)
       IN /\ \E view \in Views :
                /\ ~TabsRaise(view, ops, dept)
                /\ RunEnds(s, IF admin_logged_in[s] /\ IsEmpty(WorkingOf(view, ops, dept))
                               THEN "Cannot edit empty dataset." ELSE "rendered")
          /\ LoadsData(ops, dept)
    /\ UNCHANGED <<files, remote, lastWrite, edits, mvars, rtvars>>

\* lines 537-540: a run with a password typed and Login pressed
Login(s) ==
    /\ pc[s] = "idle"
    /\ ~admin_logged_in[s]
    /\ LET ops == Cached(OPS_FILE)
           dept == Cached(DEPT_FILE)
       IN /\ \E view \in Views, pw \in Passwords :
                /\ ~TabsRaise(view, ops, dept)
                /\ IF PasswordOk(pw)
                   THEN /\ admin_logged_in' = [admin_logged_in EXCEPT ![s] = TRUE]
                        /\ typed' = [typed EXCEPT ![s] = pw]
                        /\ RunReruns(s)                                \* st.rerun()
                   ELSE RunEnds(s, "rendered")                         \* still locked out
          /\ LoadsData(ops, dept)
    /\ UNCHANGED <<files, remote, lastWrite, edits, mvars, rtvars>>

\* lines 542-544: a run with Logout pressed
Logout(s) ==
    /\ pc[s] = "idle"
    /\ admin_logged_in[s]
    /\ LET ops == Cached(OPS_FILE)
           dept == Cached(DEPT_FILE)
       IN /\ \E view \in Views :
                /\ ~TabsRaise(view, ops, dept)
                /\ RunReruns(s)                                        \* st.rerun()
          /\ LoadsData(ops, dept)
    /\ admin_logged_in' = [admin_logged_in EXCEPT ![s] = FALSE]
    /\ typed' = typed
    /\ UNCHANGED <<files, remote, lastWrite, edits, mvars, rtvars>>

\* the admin panel is on the page: lines 537, 541, 548
PanelOpen(s, view, ops, dept) ==
    /\ pc[s] = "idle"
    /\ admin_logged_in[s]
    /\ ~TabsRaise(view, ops, dept)
    /\ ~IsEmpty(WorkingOf(view, ops, dept))

\* an admin action has changed working_df and goes on to its calls
Mutated(s, view, ops, dept, df, a) ==
    /\ edits < MaxEdits
    /\ edits' = edits + 1
    /\ view_mode' = [view_mode EXCEPT ![s] = view]
    /\ ops_df' = [ops_df EXCEPT ![s] = ops]
    /\ dept_df' = [dept_df EXCEPT ![s] = dept]
    /\ working_df' = [working_df EXCEPT ![s] = df]
    /\ target_file' = [target_file EXCEPT ![s] = TargetOf(view)]
    /\ act' = [act EXCEPT ![s] = a]
    /\ wrote' = [wrote EXCEPT ![s] = MissingFile]
    /\ saves' = [saves EXCEPT ![s] = 0]
    /\ pushes' = [pushes EXCEPT ![s] = 0]
    /\ pushed' = [pushed EXCEPT ![s] = "none"]
    /\ outcome' = [outcome EXCEPT ![s] = "none"]
    /\ pc' = [pc EXCEPT ![s] = NextCall("mutate")]
    /\ LoadsData(ops, dept)
    /\ UNCHANGED <<admin_logged_in, typed>>
    /\ UNCHANGED <<files, remote, lastWrite, mvars, rtvars>>

\* a run with Update Status pressed (lines 551-569), up to the change of
\* working_df
UpdateStatus(s) ==
    \E view \in Views :
       LET ops == Cached(OPS_FILE)
           dept == Cached(DEPT_FILE)
           df == WorkingOf(view, ops, dept)
       IN
       /\ PanelOpen(s, view, ops, dept)
       /\ LET groups == IF view = VIEW_OPS
                        THEN {<<df.rows[i]["Unit"], df.rows[i]["Desk"]>> : i \in Indices(df)}
                        ELSE {<<df.rows[i]["Department"]>> : i \in Indices(df)}
          IN \E g \in groups :
             LET p_list == IF view = VIEW_OPS THEN OpsPList(df, g[1], g[2])
                                              ELSE DeptPList(df, g[1])
             IN \E p \in PersonOptions(df, p_list) :
                \E st \in NewStatuses :
                   LET idx == PersonIndex(df, p_list, p)
                   IN IF idx = 0
                      THEN /\ RunEnds(s, "IndexError")
                           /\ LoadsData(ops, dept)
                           /\ UNCHANGED <<files, remote, lastWrite, edits, mvars, rtvars>>
                      ELSE Mutated(s, view, ops, dept, ChangeStatus(df, idx, st),
                                   [kind |-> "status", group |-> g, idx |-> idx,
                                    status |-> st, name |-> p])

\* a run with Add to Department pressed and a name typed (lines 572-586)
AddToDepartment(s) ==
    LET ops == Cached(OPS_FILE)
        df == Cached(DEPT_FILE)
    IN
    /\ PanelOpen(s, VIEW_DEPT, ops, df)
    /\    \E new_dept \in {df.rows[i]["Department"] : i \in Indices(df)} :
          \E new_name \in {n \in NewNames : NameGiven(n)} :
          \E new_desg \in NewDesignations :
          \E new_sap \in NewSapIds :
             Mutated(s, VIEW_DEPT, ops, df, AddDepartmentRow(df, new_dept, new_name, new_desg, new_sap),
                     [kind |-> "add_dept", group |-> <<new_dept>>, idx |-> Len(df.rows) + 1, status |-> "Active",
                      name |-> new_name])

\* a run with Add to Roster pressed and a name typed (lines 588-606)
AddToRoster(s) ==
    LET df == Cached(OPS_FILE)
        dept == Cached(DEPT_FILE)
    IN
    /\ PanelOpen(s, VIEW_OPS, df, dept)
    /\    \E new_unit \in RosterUnits :
          \E new_desk \in {df.rows[i]["Desk"] : i \in Indices(df)} :
          \E new_name \in {n \in NewNames : NameGiven(n)} :
             Mutated(s, VIEW_OPS, df, dept, AddRosterRow(df, new_unit, new_desk, new_name),
                     [kind |-> "add_roster", group |-> <<new_unit, new_desk>>,
                      idx |-> IF VacCheck(df, new_unit, new_desk) # {}
                              THEN First(VacCheck(df, new_unit, new_desk))
                              ELSE Len(df.rows) + 1,
                      status |-> "Active", name |-> new_name])

\* a run with Add to Department / Add to Roster pressed and the name left
\* empty (lines 587, 607)
AddWithoutName(s) ==
    /\ \E new_name \in NewNames : ~NameGiven(new_name)
    /\ LET ops == Cached(OPS_FILE)
           dept == Cached(DEPT_FILE)
       IN /\ \E view \in Views : PanelOpen(s, view, ops, dept)
          /\ RunEnds(s, "Name is required.")
          /\ LoadsData(ops, dept)
    /\ UNCHANGED <<files, remote, lastWrite, edits, mvars, rtvars>>

\* save_local(working_df, target_file) (lines 81-83): write the file, clear
\* the whole cache
SaveLocal(s) ==
    /\ pc[s] = "save"
    /\ files' = [files EXCEPT ![target_file[s]] = save_local_write(working_df[s], @)]
    /\ cache' = cache_clear
    /\ wrote' = [wrote EXCEPT ![s] = save_local_write(working_df[s], files[target_file[s]])]
    /\ lastWrite' = [lastWrite EXCEPT ![target_file[s]] = to_csv(working_df[s])]
    /\ saves' = [saves EXCEPT ![s] = @ + 1]
    /\ pc' = [pc EXCEPT ![s] = NextCall("save")]
    /\ UNCHANGED <<admin_logged_in, view_mode, typed, ops_df, dept_df, working_df,
                   target_file, act, pushes, pushed, outcome>>
    /\ UNCHANGED <<remote, edits, mvars, rtvars>>

\* update_github(working_df, target_file) (lines 55-68): the repository file
\* is updated or created, or an exception is caught and False returned
UpdateGithub(s) ==
    /\ pc[s] = "push"
    /\ \E ok \in BOOLEAN :
          /\ remote' = IF ok THEN [remote EXCEPT ![target_file[s]] = to_csv(working_df[s])]
                       ELSE remote
          /\ pushed' = [pushed EXCEPT ![s] = IF ok THEN "synced" ELSE "error"]
    /\ pushes' = [pushes EXCEPT ![s] = @ + 1]
    /\ pc' = [pc EXCEPT ![s] = NextCall("push")]
    /\ UNCHANGED <<admin_logged_in, view_mode, typed, ops_df, dept_df, working_df,
                   target_file, act, wrote, saves, outcome>>
    /\ UNCHANGED <<files, cache, lastWrite, edits, mvars, rtvars>>

Next ==
    \/ \E s \in Sessions :
          \/ Refresh(s) \/ Crash(s) \/ Render(s) \/ Login(s) \/ Logout(s)
          \/ UpdateStatus(s) \/ AddToDepartment(s) \/ AddToRoster(s) \/ AddWithoutName(s)
          \/ SaveLocal(s) \/ UpdateGithub(s)
    \/ CacheExpire

Spec == Init /\ [][Next]_vars

(***************************************************************************)
(* Metrics development: Init draws the two tables, the actions apply the    *)
(* metric functions to them.                                                *)
(***************************************************************************)
MOpsRows  == [Unit : MUnits, Desk : MDesks, Staff_Name : MNames, Status : MStatuses]
MDeptRows == [Department : MDepts, Staff_Name : MNames, Status : MStatuses]

MInit ==
    /\ mOps \in SeqsUpTo(MOpsRows, MaxMetricRows)
    /\ mDept \in SeqsUpTo(MDeptRows, MaxMetricRows - Len(mOps))
    /\ mPc = "drawn"
    /\ RtIdle
    /\ AppIdle

\* get_global_metrics(ops_df, dept_df, "Global") (line 186)
MGlobal ==
    /\ mPc = "drawn"
    /\ mPc' = "global"
    /\ UNCHANGED <<mOps, mDept>>
    /\ UNCHANGED <<rtvars, appvars>>

\* the per-unit loop of lines 266-270
MSummaryOps ==
    /\ mPc = "drawn"
    /\ Len(mOps) # 0
    /\ mPc' = "summary_ops"
    /\ UNCHANGED <<mOps, mDept>>
    /\ UNCHANGED <<rtvars, appvars>>

\* the per-department loop of lines 276-281
MSummaryDept ==
    /\ mPc = "drawn"
    /\ Len(mDept) # 0
    /\ mPc' = "summary_dept"
    /\ UNCHANGED <<mOps, mDept>>
    /\ UNCHANGED <<rtvars, appvars>>

MNext == MGlobal \/ MSummaryOps \/ MSummaryDept

SpecMetrics == MInit /\ [][MNext]_vars

(***************************************************************************)
(* Round-trip development: Init draws a readable CSV file, the actions      *)
(* apply load_data and save_local's to_csv to it unmodified.                *)
(***************************************************************************)
MaxCsvRows == 2

\* cell texts a drawn file may hold, per column
CellTexts(col) ==
    CASE col = "Staff_Name"      -> {"A", ""}
      [] col = "Desk"            -> {"Turbine Control Desk", ""}
      [] col = "Status"          -> {"Transferred", ""}
      [] col = "Action_Required" -> {"", "N/A", "Join by Monday"}
      [] col = "SAP_ID"          -> {"", "7"}

OptionalCols == {"Desk", "Status", "Action_Required", "SAP_ID"}

CsvRecords(cols) ==
    {r \in [cols -> UNION {CellTexts(c) : c \in cols}] : \A c \in cols : r[c] \in CellTexts(c)}
CsvFiles ==
    UNION {[exists : {TRUE}, cols : {cs \cup {"Staff_Name"}},
                             rows : SeqsUpTo(CsvRecords(cs \cup {"Staff_Name"}), MaxCsvRows)] : cs \in SUBSET OptionalCols}

RtInit ==
    /\ rtName \in {OPS_FILE, DEPT_FILE}
    /\ rtFile \in CsvFiles
    /\ rtOrig = rtFile
    /\ rtDf = EmptyDataFrame
    /\ rtPc = "file"
    /\ MIdle
    /\ AppIdle

\* df = load_data(filename)
RtLoad ==
    /\ rtPc = "file"
    /\ rtDf' = load_data(rtName, rtFile)
    /\ rtPc' = "loaded"
    /\ UNCHANGED <<rtName, rtOrig, rtFile>>
    /\ UNCHANGED <<mvars, appvars>>

\* save_local(df, filename) with the table as loaded
RtSave ==
    /\ rtPc = "loaded"
    /\ rtFile' = to_csv(rtDf)
    /\ rtPc' = "saved"
    /\ UNCHANGED <<rtName, rtOrig, rtDf>>
    /\ UNCHANGED <<mvars, appvars>>

RtNext == RtLoad \/ RtSave

SpecRoundTrip == RtInit /\ [][RtNext]_vars

(***************************************************************************)
(* Claims about the metric functions.                                       *)
(***************************************************************************)
\* the people of a frame: the stripped names that are not the vacant sentinel
Persons(df) ==
    {Strip(df[i].Staff_Name) : i \in {j \in 1..Len(df) : ~ContainsVACANT(df[j].Staff_Name)}}

HasStatusRow(df, n, status) ==
    \E i \in 1..Len(df) : Strip(df[i].Staff_Name) = n /\ df[i].Status = status

HasActiveAndTransferred(df, n) ==
    HasStatusRow(df, n, "Active") /\ HasStatusRow(df, n, "Transferred")

\* the frame without the rows of person n
Without(df, n) == LET other(r) == Strip(r.Staff_Name) # n IN SelectSeq(df, other)

\* person n accounts for exactly one head of `with`, and that head is a
\* Transferred one: against the same frame without n's rows the transferred
\* count and the headcount are one higher and the Active entry is the same
CountedOnceAsTransferred(with, without) ==
    /\ with.transferred = without.transferred + 1
    /\ with.status_counts["Active"] = without.status_counts["Active"]
    /\ Headcount(with) = Headcount(without) + 1

AllRows == NameStatus(mOps) \o NameStatus(mDept)

\* C2 for calculate_metrics on one frame
DedupOnFrame(df) ==
    \A n \in Persons(df) :
        HasActiveAndTransferred(df, n) =>
            CountedOnceAsTransferred(calculate_metrics(df), calculate_metrics(Without(df, n)))

\* C2 as claimed: a person with an Active and a Transferred row, wherever in the
\* ops or the departmental table those rows are, is counted exactly once and as
\* Transferred by calculate_metrics and by get_global_metrics(scope="Global").
C2_AsClaimed ==
    mPc = "global" =>
    /\ DedupOnFrame(AllRows)
    /\ \A n \in Persons(AllRows) :
          HasActiveAndTransferred(AllRows, n) =>
              CountedOnceAsTransferred(
                  get_global_metrics(mOps, mDept, "Global"),
                  get_global_metrics(Without(mOps, n), Without(mDept, n), "Global"))

\* C2 amended: the same, for the rows get_global_metrics counts: every
\* departmental row and the ops rows whose Desk is not 'Shift In-Charge'.
C2_TransferredBeatsActive ==
    mPc = "global" =>
    /\ DedupOnFrame(AllRows)
    /\ DedupOnFrame(NameStatus(mOps))
    /\ DedupOnFrame(NameStatus(mDept))
    /\ \A n \in Persons(AllRows) :
          HasActiveAndTransferred(Combined(mOps, mDept, "Global"), n) =>
              CountedOnceAsTransferred(
                  get_global_metrics(mOps, mDept, "Global"),
                  get_global_metrics(Without(mOps, n), Without(mDept, n), "Global"))

\* an Active row in the ops table listed before a Transferred row of the same
\* person (under a differently padded name) in the departmental table
C2_Witness ==
    /\ mPc = "global"
    /\ \E i \in 1..Len(mOps), j \in 1..Len(mDept) :
          /\ mOps[i].Desk # SIC_DESK
          /\ mOps[i].Staff_Name = " A" /\ mOps[i].Status = "Active"
          /\ mDept[j].Staff_Name = "A" /\ mDept[j].Status = "Transferred"
    /\ get_global_metrics(mOps, mDept, "Global").transferred = 1

\* the partitions the Summary report sums over
NoSicOps == SelectSeq(mOps, NotSicDesk)

\* person n has Transferred rows in two different groups
TransferredInTwoGroups(groups, n) ==
    \E k1, k2 \in DOMAIN groups :
        k1 # k2 /\ HasStatusRow(groups[k1], n, "Transferred")
                /\ HasStatusRow(groups[k2], n, "Transferred")

TransferredAdditive(df, groups) ==
    calculate_metrics(df).transferred = SumTransferred(groups)

\* C3 as claimed: the transferred count of the full table is the sum of the
\* transferred counts of its parts by Unit and by Department, also when one
\* name has Transferred rows in two parts.
C3_AsClaimed ==
    /\ mPc = "summary_ops" =>
          /\ TransferredAdditive(mOps, GroupByUnit(mOps))
          /\ TransferredAdditive(NoSicOps, GroupByUnit(NoSicOps))
    /\ mPc = "summary_dept" =>
          TransferredAdditive(mDept, GroupByDepartment(mDept))

TransferredAdditiveUnlessShared(df, groups) ==
    LET full == calculate_metrics(df).transferred
        sum == SumTransferred(groups)
        shared == \E n \in Persons(df) : TransferredInTwoGroups(groups, n)
    IN IF shared THEN full < sum ELSE full = sum

\* C3 amended: the full table's transferred count equals the sum over the parts
\* exactly when no person has Transferred rows in two different parts; a person
\* who has is counted once in the full table and once in each of those parts,
\* so the full count is then smaller than the sum.
C3_TransferredPartition ==
    /\ mPc = "summary_ops" =>
          /\ TransferredAdditiveUnlessShared(mOps, GroupByUnit(mOps))
          /\ TransferredAdditiveUnlessShared(NoSicOps, GroupByUnit(NoSicOps))
    /\ mPc = "summary_dept" =>
          TransferredAdditiveUnlessShared(mDept, GroupByDepartment(mDept))

\* a person Active in one unit and Transferred in the other, Active row first
C3_Witness ==
    /\ mPc = "summary_ops"
    /\ Len(mOps) = 2
    /\ mOps[1].Unit # mOps[2].Unit
    /\ mOps[1].Desk # SIC_DESK /\ mOps[2].Desk # SIC_DESK
    /\ mOps[1].Staff_Name = "A" /\ mOps[1].Status = "Active"
    /\ mOps[2].Staff_Name = "A" /\ mOps[2].Status = "Transferred"
    /\ SumTransferred(GroupByUnit(mOps)) = 1

VacantAdditive(df, groups) == calculate_metrics(df).vacant = SumVacant(groups)

\* C4: the vacancy count of the full table (its rows with Status VACANCY) is
\* the sum of the vacancy counts of its parts by Unit and by Department.
C4_VacantPartition ==
    /\ mPc = "summary_ops" =>
          /\ VacantAdditive(mOps, GroupByUnit(mOps))
          /\ VacantAdditive(NoSicOps, GroupByUnit(NoSicOps))
    /\ mPc = "summary_dept" =>
          VacantAdditive(mDept, GroupByDepartment(mDept))

\* the same vacant sentinel name in two departments
C4_Witness ==
    /\ mPc = "summary_dept"
    /\ \E i, j \in 1..Len(mDept) :
          /\ mDept[i].Department # mDept[j].Department
          /\ mDept[i].Status = "VACANCY" /\ mDept[j].Status = "VACANCY"
          /\ mDept[i].Staff_Name = mDept[j].Staff_Name
    /\ calculate_metrics(mDept).vacant >= 2

(***************************************************************************)
(* Claims about the CSV round trip.                                         *)
(***************************************************************************)
RowSet(file) == {file.rows[i] : i \in 1..Len(file.rows)}

PlainColumn(file, c) ==
    LET cells == {file.rows[i][c] : i \in 1..Len(file.rows)}
    IN /\ "N/A" \notin cells
       /\ ~("7" \in cells /\ "" \in cells)

\* the text written back for a cell of column c: a missing-value marker comes
\* back as the empty cell, an integer in a numeric column that has a missing
\* cell comes back as a float, anything else as it was
WrittenBack(file, c, cell) ==
    LET cells == {file.rows[i][c] : i \in 1..Len(file.rows)}
        numeric == \A x \in cells : x \in {"", "N/A", "7", "7.0"}
        missing == \E x \in cells : x \in {"", "N/A"}
    IN IF cell \in {"", "N/A"} THEN ""
       ELSE IF cell = "7" /\ numeric /\ missing THEN "7.0"
       ELSE cell

DefaultCell(c) == IF c = "Status" THEN "Active" ELSE ""

Loaded(s) == WorkingOf(view_mode[s], ops_df[s], dept_df[s])

\* session s is past the change of working_df of an admin action
InAction(s) == pc[s] \in {"save", "push", "rerun"} /\ act[s].kind # "none"
Saved(s) == InAction(s) /\ saves[s] >= 1

MarkedVacant(s) == InAction(s) /\ act[s].kind = "status" /\ act[s].status = "VACANCY"

\* the affected row carries this name and Status VACANCY, in working_df and
\* in the file as save_local left it
VacantRowIs(s, name) ==
    /\ working_df[s].rows[act[s].idx]["Staff_Name"] = name
    /\ working_df[s].rows[act[s].idx]["Status"] = "VACANCY"
    /\ Saved(s) => /\ wrote[s].rows[act[s].idx]["Staff_Name"] = name
                   /\ wrote[s].rows[act[s].idx]["Status"] = "VACANCY"

\* C1 as stated: after Update Status with new status VACANCY the affected
\* row's Staff_Name is "VACANT POSITION" and its Status is VACANCY, in the
\* working table and in the written file.
C1_AsClaimed == \A s \in Sessions : MarkedVacant(s) => VacantRowIs(s, "VACANT POSITION")

\* C1: after Update Status with new status VACANCY, in either view, the
\* affected row's Staff_Name is "VACANT" (line 565), a name the vacancy tests
\* of the code recognise, and its Status is VACANCY, in the working table and
\* in the file written by save_local.
C1_MarkVacant ==
    \A s \in Sessions :
        MarkedVacant(s) => /\ VacantRowIs(s, "VACANT")
                           /\ ContainsVACANT(working_df[s].rows[act[s].idx]["Staff_Name"])

C1_Witness ==
    \E s \in Sessions :
        /\ MarkedVacant(s) /\ pc[s] = "push"
        /\ act[s].name = "A"
        /\ Loaded(s).rows[act[s].idx]["Status"] = "Active"
        /\ wrote[s].rows[act[s].idx]["Staff_Name"] = "VACANT"

\* C6 as stated: when an input file is missing, no run of the script ends in
\* an unhandled exception.
C6_AsClaimed ==
    \A s \in Sessions :
        (\E f \in FileNames : files[f] = MissingFile) => outcome[s] # "exception"

\* C7: in every admin action the file is written before the push is
\* attempted; a failed push is caught, the file holds the changed table
\* unless another save replaced it, the run goes on to its rerun, and the
\* push is attempted at most once.
C7_SaveBeforePush ==
    \A s \in Sessions :
        /\ pushes[s] <= saves[s] /\ saves[s] <= 1
        /\ pc[s] = "save" => saves[s] = 0 /\ pushes[s] = 0
        /\ pc[s] = "push" => saves[s] = 1 /\ pushes[s] = 0
        /\ pushed[s] # "none" => pc[s] = "rerun" /\ saves[s] = 1 /\ pushes[s] = 1
        /\ pushed[s] = "error" =>
              /\ wrote[s] = to_csv(working_df[s])
              /\ \/ files[target_file[s]] = wrote[s]
                 \/ lastWrite[target_file[s]] # wrote[s]
              /\ outcome[s] # "exception"

C7_Witness ==
    \E s \in Sessions :
        /\ pushed[s] = "error" /\ pc[s] = "rerun"
        /\ files[target_file[s]] = to_csv(working_df[s])
        /\ remote[target_file[s]] # to_csv(working_df[s])

\* C8: admin_logged_in starts false and becomes true only in a run with the
\* password of line 538 typed and Login pressed; with another password the
\* session stays locked out; save_local and update_github are called only by
\* a session whose admin_logged_in is true.
C8_LoginGate ==
    /\ \A s \in Sessions : ~admin_logged_in[s]
    /\ [][\A s \in Sessions :
            /\ (admin_logged_in'[s] /\ ~admin_logged_in[s])
                  => pc[s] = "idle" /\ typed'[s] = PASSWORD
            /\ (saves'[s] > saves[s] \/ pushes'[s] > pushes[s] \/ act'[s] # act[s])
                  => admin_logged_in[s] /\ admin_logged_in'[s]
            /\ (files' # files \/ remote' # remote)
                  => \E t \in Sessions : admin_logged_in[t] /\ pc[t] \in {"save", "push"}]_vars

C8_Witness ==
    \E s, t \in Sessions :
        /\ pc[s] = "push" /\ admin_logged_in[s] /\ files[target_file[s]] = wrote[s]
        /\ ~admin_logged_in[t] /\ outcome[t] = "rendered"

\* C9 as stated: the number of rows in each data file never decreases.
C9_AsClaimed ==
    [][\A f \in FileNames : Len(files'[f].rows) >= Len(files[f].rows)]_vars

\* rows of the loaded table other than the affected one are as loaded
OthersKept(s) ==
    \A i \in Indices(Loaded(s)) : i # act[s].idx => working_df[s].rows[i] = Loaded(s).rows[i]

\* C9: an admin action deletes no row of the table its run loaded: Update
\* Status writes a table of the same length with one row overwritten in
\* place, an Add action writes one of the same length or one row longer, and
\* every other row is written as loaded.  (A save may still shorten the file
\* when another session added a row after this run loaded.)
C9_NoRowDeleted ==
    \A s \in Sessions :
        InAction(s) =>
            /\ OthersKept(s)
            /\ act[s].kind = "status" => Len(working_df[s].rows) = Len(Loaded(s).rows)
            /\ act[s].kind # "status" =>
                  Len(working_df[s].rows) \in {Len(Loaded(s).rows), Len(Loaded(s).rows) + 1}
            /\ Saved(s) => Len(wrote[s].rows) = Len(working_df[s].rows)

C9_Witness ==
    \E s \in Sessions :
        /\ Saved(s) /\ act[s].kind = "add_dept"
        /\ Len(wrote[s].rows) = Len(Loaded(s).rows) + 1
        /\ Len(Loaded(s).rows) >= 1

\* C10: when the runs of two admin sessions interleave, each data file holds
\* exactly the table of the last save_local: a save is never refused and
\* raises nothing, whatever the file holds by then.
C10_LastWriterWins ==
    /\ \A f \in FileNames : lastWrite[f].exists => files[f] = lastWrite[f]
    /\ \A s \in Sessions :
          /\ pc[s] = "save" => ENABLED SaveLocal(s)
          /\ InAction(s) => outcome[s] = "none"

\* both sessions have saved the same file; the file is the later table, and
\* the row the earlier writer changed is not in it
C10_Witness ==
    \E s, t \in Sessions :
        /\ s # t /\ Saved(s) /\ Saved(t) /\ target_file[s] = target_file[t]
        /\ files[target_file[s]] = wrote[t]
        /\ act[s].idx <= Len(wrote[t].rows)
        /\ wrote[t].rows[act[s].idx] # wrote[s].rows[act[s].idx]
        /\ wrote[t].rows[act[s].idx] = to_csv(Loaded(s)).rows[act[s].idx]

(***************************************************************************)
(* Further claims about the admin actions (specification Spec).             *)
(***************************************************************************)
\* a row has Status VACANCY exactly when its Staff_Name is a vacant name
VacancyConsistent(df) ==
    \A i \in Indices(df) :
        (df.rows[i]["Status"] = "VACANCY") <=> ContainsVACANT(df.rows[i]["Staff_Name"])

\* C11 as stated: an admin action on a table in which a row has Status
\* VACANCY exactly when its Staff_Name is the vacant name yields such a table.
C11_AsClaimed ==
    \A s \in Sessions :
        (InAction(s) /\ VacancyConsistent(Loaded(s))) => VacancyConsistent(working_df[s])

\* the rows of df in the group (Unit, Desk) or (Department) an action selected
GroupRows(df, g) ==
    IF Len(g) = 2 THEN OpsPList(df, g[1], g[2]) ELSE DeptPList(df, g[1])

\* the affected row is the first row of the selected group, in table order,
\* that carries the selected name
FirstNamesake(s) ==
    LET rows == {i \in GroupRows(Loaded(s), act[s].group) :
                    Loaded(s).rows[i]["Staff_Name"] = act[s].name}
    IN act[s].idx \in rows /\ \A j \in rows : act[s].idx <= j

\* C12 as stated: when Update Status saves, against the file its run loaded,
\* the saved file differs only on the first row of the selected group with the
\* selected name, and there only in Status (and Staff_Name for VACANCY).
C12_AsClaimed ==
    [][\A s \in Sessions :
          (/\ saves'[s] > saves[s]
           /\ act[s].kind = "status"
           /\ load_data(target_file[s], files[target_file[s]]) = Loaded(s))
          => LET old == files[target_file[s]]
                 new == files'[target_file[s]]
             IN /\ FirstNamesake(s)
                /\ new.cols = old.cols
                /\ Len(new.rows) = Len(old.rows)
                /\ new.rows[act[s].idx]["Status"] = act[s].status
                /\ \A j \in 1..Len(old.rows) : \A c \in old.cols :
                      \/ j = act[s].idx /\ c = "Status"
                      \/ j = act[s].idx /\ c = "Staff_Name" /\ act[s].status = "VACANCY"
                      \/ new.rows[j][c] = old.rows[j][c]]_vars

\* the rows of the loaded table, but for row i, are the rows of working_df
KeptBut(s, i) ==
    \A j \in Indices(Loaded(s)) : j # i => working_df[s].rows[j] = Loaded(s).rows[j]

\* C13: Add to Roster with a name: when a row of the chosen Unit and Desk has
\* Status VACANCY, the first such row gets the new name and Status Active,
\* the row count is unchanged and no other row changes; otherwise one row
\* (Unit, Desk, name, Active, empty Action_Required) is appended and the
\* existing rows are unchanged.  Add to Department appends one Active row and
\* fills no vacancy.  The file is written with exactly these rows.
C13_AddPerson ==
    \A s \in Sessions :
        LET L == Loaded(s)
            W == working_df[s]
            g == act[s].group
        IN /\ (InAction(s) /\ act[s].kind = "add_roster") =>
                 /\ act[s].name # ""
                 /\ IF VacCheck(L, g[1], g[2]) # {}
                    THEN LET i == First(VacCheck(L, g[1], g[2]))
                         IN /\ Len(W.rows) = Len(L.rows)
                            /\ W.rows[i] = [L.rows[i] EXCEPT !["Staff_Name"] = act[s].name,
                                                             !["Status"] = "Active"]
                            /\ KeptBut(s, i)
                    ELSE W.rows = Append(L.rows, OpsRow(g[1], g[2], act[s].name, "Active"))
           /\ (InAction(s) /\ act[s].kind = "add_dept") =>
                 /\ act[s].name # ""
                 /\ Len(W.rows) = Len(L.rows) + 1
                 /\ KeptBut(s, 0)
                 /\ W.rows[Len(W.rows)]["Department"] = g[1]
                 /\ W.rows[Len(W.rows)]["Staff_Name"] = act[s].name
                 /\ W.rows[Len(W.rows)]["Status"] = "Active"
           /\ (Saved(s) /\ act[s].kind \in {"add_roster", "add_dept"}) =>
                 wrote[s].cols = L.cols /\ wrote[s].rows = W.rows

\* one session has filled the vacancy of Unit 6, another has appended a row
\* for Unit 7, both from the same loaded table
C13_Witness ==
    \E s, t \in Sessions :
        /\ Saved(s) /\ act[s].kind = "add_roster"
        /\ VacCheck(Loaded(s), act[s].group[1], act[s].group[2]) # {}
        /\ Len(wrote[s].rows) = Len(Loaded(s).rows)
        /\ Saved(t) /\ act[t].kind = "add_roster"
        /\ VacCheck(Loaded(t), act[t].group[1], act[t].group[2]) = {}
        /\ Len(wrote[t].rows) = Len(Loaded(t).rows) + 1

\* C14: what load_data returns is the table of the file as it is now, which
\* is the table of the latest save_local if there was one, whether or not it
\* comes from the cache: a cached table is returned only while it equals what
\* reading the file would give, save_local and Refresh having cleared the
\* cache.
C14_FreshLoads ==
    \A f \in FileNames :
        /\ Cached(f) = load_data(f, files[f])
        /\ lastWrite[f].exists => Cached(f) = load_data(f, lastWrite[f])

\* a run after a save that changed the table has loaded the saved table, and
\* the cache holds it
C14_Witness ==
    \E f \in FileNames :
        /\ cache[f].hit /\ lastWrite[f].exists
        /\ cache[f].df = load_data(f, lastWrite[f])
        /\ \E i \in Indices(cache[f].df) : cache[f].df.rows[i]["Status"] = "Transferred"
        /\ edits = 1
        /\ \A s \in Sessions : pc[s] = "idle"

\* C15: the lookup of line 563 is always defined: in a run in which Update
\* Status fires, the selected person is the name of a row of the table that
\* run loaded, within the selected (Unit, Desk) or Department, so no run ends
\* in a lookup error, whatever other sessions wrote in the meantime.
C15_LookupDefined ==
    \A s \in Sessions :
        /\ outcome[s] # "IndexError"
        /\ (InAction(s) /\ act[s].kind = "status") =>
              /\ act[s].idx \in GroupRows(Loaded(s), act[s].group)
              /\ Loaded(s).rows[act[s].idx]["Staff_Name"] = act[s].name

\* Update Status has fired in a run that loaded a table another session had
\* saved since this session's previous run
C15_Witness ==
    \E s, t \in Sessions :
        /\ s # t /\ Saved(t)
        /\ InAction(s) /\ act[s].kind = "status" /\ pc[s] = "save"
        /\ target_file[s] = target_file[t]
        /\ to_csv(Loaded(s)) = wrote[t]
        /\ Loaded(s) # working_df[s]
        /\ act[s].name \notin {Loaded(t).rows[i]["Staff_Name"] : i \in Indices(Loaded(t))}

\* C16: an Add Person action with an empty name is rejected with 'Name is
\* required.': no Add action is carried out with an empty name, and the run
\* that rejects changes no table, writes no file, pushes nothing and leaves
\* the cache filled.
C16_EmptyNameRejected ==
    /\ [](\A s \in Sessions :
            /\ (InAction(s) /\ act[s].kind \in {"add_dept", "add_roster"}) => act[s].name # ""
            /\ outcome[s] = "Name is required." =>
                  /\ pc[s] \in {"idle", "rerun"} /\ act[s] = NoAction
                  /\ saves[s] = 0 /\ pushes[s] = 0
                  /\ working_df[s] = EmptyDataFrame /\ wrote[s] = MissingFile)
    /\ [][\A s \in Sessions :
            AddWithoutName(s) =>
               /\ outcome'[s] = "Name is required."
               /\ files' = files /\ remote' = remote /\ lastWrite' = lastWrite
               /\ \A f \in FileNames : cache'[f].hit /\ (cache[f].hit => cache'[f] = cache[f])]_vars

\* an empty name was rejected after an earlier action had been saved: the
\* file holds that action's table and the cache is filled
C16_Witness ==
    \E s \in Sessions :
        /\ outcome[s] = "Name is required."
        /\ edits = 1
        /\ \E f \in FileNames : lastWrite[f].exists /\ files[f] = lastWrite[f] /\ cache[f].hit

\* the table load_data gives for the file of a view, as the file is now
TableNow(view) == load_data(TargetOf(view), files[TargetOf(view)])

\* C17 as stated: when the table of a view is empty (file missing, header
\* only, ops file without Desk), a run reaches the admin tab, where a
\* logged-in admin is shown 'Cannot edit empty dataset.': no run ends in an
\* exception.
C17_AsClaimed ==
    \A s \in Sessions :
        (\E view \in Views : IsEmpty(TableNow(view))) => outcome[s] # "exception"

\* C17, second part: a file whose table is empty is never written, pushed or
\* the target of an admin action, and no table becomes empty.
C17_EmptyFileStays ==
    \A view \in Views :
        LET f == TargetOf(view)
        IN /\ IsEmpty(TableNow(view)) =>
                /\ ~lastWrite[f].exists /\ remote[f] = MissingFile
                /\ \A s \in Sessions : InAction(s) => target_file[s] # f
           /\ lastWrite[f].exists => ~IsEmpty(TableNow(view))

\* the file that belongs to the view of session s's admin action
ViewFile(s) == IF view_mode[s] = VIEW_OPS THEN OPS_FILE ELSE DEPT_FILE

\* C18: an admin action writes only the file of its view mode: save_local
\* replaces that file by the whole working table of the view and leaves the
\* other file as it is, update_github pushes that table to that file of the
\* repository or pushes nothing, and neither touches anything else.
C18_OnlyViewFile ==
    /\ [](\A s \in Sessions :
            InAction(s) =>
               /\ target_file[s] = ViewFile(s)
               /\ working_df[s].cols = (IF view_mode[s] = VIEW_OPS THEN OpsCols ELSE DeptCols)
               /\ act[s].kind = "add_roster" => view_mode[s] = VIEW_OPS
               /\ act[s].kind = "add_dept" => view_mode[s] = VIEW_DEPT)
    /\ [][\A s \in Sessions :
            /\ saves'[s] > saves[s] =>
                  /\ files' = [files EXCEPT ![ViewFile(s)] = to_csv(working_df[s])]
                  /\ remote' = remote
            /\ pushes'[s] > pushes[s] =>
                  /\ files' = files
                  /\ \/ remote' = remote
                     \/ remote' = [remote EXCEPT ![ViewFile(s)] = to_csv(working_df[s])]]_vars

\* an action in the departmental view has saved and pushed: the departmental
\* file and its copy in the repository hold the working table, the ops file
\* was never written or pushed
C18_Witness ==
    \E s \in Sessions :
        /\ Saved(s) /\ view_mode[s] = VIEW_DEPT /\ pushed[s] = "synced"
        /\ files[DEPT_FILE] = to_csv(working_df[s])
        /\ remote[DEPT_FILE] = to_csv(working_df[s])
        /\ files[OPS_FILE].exists /\ files[OPS_FILE].rows # <<>>
        /\ ~lastWrite[OPS_FILE].exists /\ remote[OPS_FILE] = MissingFile

====
